---- MODULE Spec2Model ----
(***************************************************************************)
(* Model of jekxkan/yadro_test: the configuration diff/patch engine        *)
(* (config_data.py) and the XML model parser, tree builder and renderer    *)
(* (xml_data.py).                                                          *)
(*                                                                         *)
(* Python values are modelled as follows.                                  *)
(*   str used as an opaque name     a TLA+ string                          *)
(*   str that the code takes apart  a sequence of one-character strings    *)
(*   str that the code puts together a sequence of tokens                  *)
(*   None                           the value None below                   *)
(*   dict whose order is not read   a function                             *)
(*   dict whose order is read       a sequence of records in insertion     *)
(*                                  order, looked up by their 'class' key  *)
(*   list                           a sequence                             *)
(***************************************************************************)
EXTENDS Integers, Sequences, FiniteSets, TLC

VARIABLES
    \* config_data.py
    old_config,     \* the old configuration document
    new_config,     \* the new configuration document
    diff_config,    \* the diff document handed to do_config_changes
    new_json,       \* the document do_config_changes returned
    cfg_pc,         \* "start" | "diffed" | "patched"
    \* xml_data.py: XMLParser
    document,       \* the XML document at xml_path
    _classes,       \* XMLParser._classes
    _aggregations,  \* XMLParser._aggregations
    returned,       \* the lists parse() returned so far, oldest first
    \* xml_data.py: XMLBuilder
    json_data,      \* the list the builder was constructed with
    data,           \* XMLBuilder.data
    root,           \* XMLBuilder.root
    xml_structure,  \* the string build() returned
    pc,             \* "none" | "ready" | "built" | an exception's name
    \* xml_data.py: XMLComposite
    component,      \* a tree of XMLComposite objects
    rendered,       \* the string component.to_xml(indent) returned
    indent_arg      \* the indent it was called with

cfg_vars == <<old_config, new_config, diff_config, new_json, cfg_pc>>
parser_vars == <<document, _classes, _aggregations, returned>>
builder_vars == <<json_data, data, root, xml_structure, pc>>
tree_vars == <<component, rendered, indent_arg>>
vars == <<cfg_vars, parser_vars, builder_vars, tree_vars>>

\* Python's None: a value equal to no string the model uses.
None == "<None>"

\* bool(x) for a str or None.
Truthy(x) == x # None /\ x # ""

Range(s) == {s[i] : i \in 1..Len(s)}

\* The sequences over S of length at most n.
SeqsUpTo(S, n) == UNION {[1..k -> S] : k \in 0..n}

\* The orders in which a Python set may be iterated: every enumeration of S.
Orders(S) == {f \in [1..Cardinality(S) -> S] : \A e \in S : \E i \in DOMAIN f : f[i] = e}

(***************************************************************************)
(* config_data.py                                                          *)
(***************************************************************************)

\* The keys and values of the configuration documents explored.
Keys == {"", "a", "b", "c"}
Values == {1, 2}
Docs == UNION {[K -> Values] : K \in SUBSET Keys}

\* The diff documents explored by SpecPatch: any lists in the diff shape.
MaxDiffLen == 1
PatchKeys == {"", "a"}
PatchDocs == UNION {[K -> Values] : K \in SUBSET PatchKeys}
AnyDiffs ==
    [additions : SeqsUpTo([key : PatchKeys, value : Values], MaxDiffLen),
     deletions : SeqsUpTo(PatchKeys, MaxDiffLen),
     updates : SeqsUpTo([key : PatchKeys, from : Values, to : Values], MaxDiffLen)]

EmptyDiff == [additions |-> <<>>, deletions |-> <<>>, updates |-> <<>>]

\* The updates loop with the comparison dropped: every shared key is listed.
UpdatesOfAllShared(old, new, order) ==
    [i \in DOMAIN order |->
        [key |-> order[i], from |-> old[order[i]], to |-> new[order[i]]]]

\* find_differences, lines 41-48: the shared keys, in iteration order `order`,
\* that carry unequal values.
UpdatesOf(old, new, order) ==
    LET changed == SelectSeq(order, LAMBDA k : old[k] # new[k])
    IN  [i \in DOMAIN changed |->
            [key |-> changed[i], from |-> old[changed[i]], to |-> new[changed[i]]]]

\* find_differences: every diff the call may return, one per iteration order
\* of the three key sets.
find_differences(old, new) ==
    LET old_params == DOMAIN old
        new_params == DOMAIN new
    IN  {[additions |-> [i \in DOMAIN a |-> [key |-> a[i], value |-> new[a[i]]]],
          deletions |-> d,
          updates |-> UpdatesOf(old, new, u)] :
            a \in Orders(new_params \ old_params),
            d \in Orders(old_params \ new_params),
            u \in Orders(old_params \cap new_params)}

\* new_json[key] = value
SetItem(json, key, value) ==
    [k \in DOMAIN json \cup {key} |-> IF k = key THEN value ELSE json[k]]

\* do_config_changes, lines 69-73: the additions loop from index i on.
RECURSIVE ApplyAdditions(_, _, _)
ApplyAdditions(additions, i, json) ==
    IF i > Len(additions) THEN json
    ELSE ApplyAdditions(additions, i + 1,
            IF Truthy(additions[i].key)
            THEN SetItem(json, additions[i].key, additions[i].value)
            ELSE json)

\* do_config_changes, lines 76-80: the updates loop from index i on.
RECURSIVE ApplyUpdates(_, _, _)
ApplyUpdates(updates, i, json) ==
    IF i > Len(updates) THEN json
    ELSE ApplyUpdates(updates, i + 1,
            IF Truthy(updates[i].key)
            THEN SetItem(json, updates[i].key, updates[i].to)
            ELSE json)

\* Line 83 without the deletions: deleted keys are copied forward.
UnchangedParamsKeepDeleted(old, json, diff) == DOMAIN old \ DOMAIN json

\* Line 83 without the keys already set: old values overwrite the new ones.
UnchangedParamsOverwrite(old, json, diff) == DOMAIN old \ Range(diff.deletions)

\* do_config_changes, line 83.
UnchangedParams(old, json, diff) ==
    (DOMAIN old \ DOMAIN json) \ Range(diff.deletions)

do_config_changes(old, diff) ==
    LET added == ApplyAdditions(diff.additions, 1, <<>>)
        updated == ApplyUpdates(diff.updates, 1, added)
        unchanged_params == UnchangedParams(old, updated, diff)
    IN  [k \in DOMAIN updated \cup unchanged_params |->
            IF k \in unchanged_params THEN old[k] ELSE updated[k]]

\* main.py line 22: diff = find_differences(old_data, new_data)
FindDifferences ==
    /\ cfg_pc = "start"
    /\ diff_config' \in find_differences(old_config, new_config)
    /\ cfg_pc' = "diffed"
    /\ UNCHANGED <<old_config, new_config, new_json>>
    /\ UNCHANGED <<parser_vars, builder_vars, tree_vars>>

\* A caller hands do_config_changes a diff document of its own (a delta.json
\* read back from disk, say).
HandDiff ==
    /\ cfg_pc = "start"
    /\ diff_config' \in AnyDiffs
    /\ cfg_pc' = "diffed"
    /\ UNCHANGED <<old_config, new_config, new_json>>
    /\ UNCHANGED <<parser_vars, builder_vars, tree_vars>>

\* main.py line 26: result = do_config_changes(old_data, diff)
DoConfigChanges ==
    /\ cfg_pc = "diffed"
    /\ new_json' = do_config_changes(old_config, diff_config)
    /\ cfg_pc' = "patched"
    /\ UNCHANGED <<old_config, new_config, diff_config>>
    /\ UNCHANGED <<parser_vars, builder_vars, tree_vars>>

(***************************************************************************)
(* xml_data.py: XMLComposite                                               *)
(***************************************************************************)

\* XMLComposite(name, attribute_value): a fresh object, no children yet.
XMLComposite(name, attribute_value) ==
    [name |-> name, attribute_value |-> attribute_value, children |-> <<>>]

\* component.add(child), line 36.
add(parent, child) == [parent EXCEPT !.children = Append(@, child)]

\* str(x) inside an f-string.
Str(x) == IF x = None THEN "None" ELSE x

\* The number of spaces in the indent unit "    " of line 54.
IndentWidth == 4

Spaces(n) == [i \in 1..n |-> " "]

\* Line 54 with a two-space unit.
IndentStrNarrow(indent) == Spaces(2 * indent)

\* indent_str = "    " * indent, line 54.
IndentStr(indent) == Spaces(IndentWidth * indent)

OpenTag(name) == <<"<", Str(name), ">">>
CloseTag(name) == <<"</", Str(name), ">">>

\* sep.join(strs) from index i on.
RECURSIVE Join(_, _, _)
Join(strs, sep, i) ==
    IF i > Len(strs) THEN <<>>
    ELSE IF i = Len(strs) THEN strs[i]
    ELSE strs[i] \o sep \o Join(strs, sep, i + 1)

\* to_xml, lines 54-68.
RECURSIVE to_xml(_, _)
to_xml(self, indent) ==
    LET indent_str == IndentStr(indent)
    IN  IF self.children # <<>>
        THEN LET lines == <<indent_str \o OpenTag(self.name)>>
                          \o [i \in DOMAIN self.children |->
                                to_xml(self.children[i], indent + 1)]
                          \o <<indent_str \o CloseTag(self.name)>>
             IN  Join(lines, <<"\n">>, 1)
        ELSE IF Truthy(self.attribute_value)
        THEN indent_str \o OpenTag(self.name) \o <<Str(self.attribute_value)>>
                \o CloseTag(self.name)
        ELSE indent_str \o OpenTag(self.name) \o <<"\n">>
                \o indent_str \o CloseTag(self.name)

(***************************************************************************)
(* Dicts whose iteration order the code reads: the records in insertion    *)
(* order, keyed by their 'class' field.                                    *)
(***************************************************************************)

Has(d, key) == \E i \in DOMAIN d : d[i].class = key
IndexOf(d, key) == CHOOSE i \in DOMAIN d : d[i].class = key
Get(d, key) == d[IndexOf(d, key)]

\* d[key] = item: a new key goes last, a known key keeps its place.
Put(d, key, item) ==
    IF Has(d, key) THEN [d EXCEPT ![IndexOf(d, key)] = item] ELSE Append(d, item)

(***************************************************************************)
(* xml_data.py: XMLParser                                                  *)
(***************************************************************************)

\* elem.get(attr, default) on an attribute that is None when it is missing.
GetAttr(value, default) == IF value = None THEN default ELSE value

\* str.lower() on the isRoot values explored.
Lower(s) ==
    CASE s = "True" -> "true"
      [] s = "TRUE" -> "true"
      [] s = "False" -> "false"
      [] OTHER -> s

\* '..' in s, from index i on.
ContainsDots(s) == \E i \in 1..(Len(s) - 1) : s[i] = "." /\ s[i + 1] = "."

\* s.split('..'): the pieces between successive non-overlapping separators,
\* found left to right.
RECURSIVE SplitDots(_)
SplitDots(s) ==
    IF ~ContainsDots(s) THEN <<s>>
    ELSE LET i == CHOOSE j \in 1..(Len(s) - 1) :
                    /\ s[j] = "." /\ s[j + 1] = "."
                    /\ \A k \in 1..(j - 1) : ~(s[k] = "." /\ s[k + 1] = ".")
         IN  <<SubSeq(s, 1, i - 1)>> \o SplitDots(SubSeq(s, i + 2, Len(s)))

\* Line 176 taking the last piece of the split.
MultiplicityMaxLast(multiplicity) ==
    IF ContainsDots(multiplicity)
    THEN SplitDots(multiplicity)[Len(SplitDots(multiplicity))]
    ELSE multiplicity

\* Line 175.
MultiplicityMin(multiplicity) ==
    IF ContainsDots(multiplicity) THEN SplitDots(multiplicity)[1] ELSE multiplicity

\* Line 176.
MultiplicityMax(multiplicity) ==
    IF ContainsDots(multiplicity) THEN SplitDots(multiplicity)[2] ELSE multiplicity

\* Lines 158-166: the record of one Class element.
ClassData(elem) ==
    [class |-> elem.name,
     documentation |-> GetAttr(elem.documentation, ""),
     isRoot |-> Lower(GetAttr(elem.isRoot, "false")) = "true",
     parameters |-> [i \in DOMAIN elem.attributes |->
                        [name |-> elem.attributes[i].name,
                         type |-> elem.attributes[i].type]]]

\* Lines 157-167: the Class loop from index i on.
RECURSIVE ParseClasses(_, _, _)
ParseClasses(elems, i, classes) ==
    IF i > Len(elems) THEN classes
    ELSE ParseClasses(elems, i + 1,
            Put(classes, ClassData(elems[i]).class, ClassData(elems[i])))

\* Lines 171-177: the record of one Aggregation element.
AggData(elem) ==
    [source |-> elem.source,
     target |-> elem.target,
     min |-> MultiplicityMin(elem.sourceMultiplicity),
     max |-> MultiplicityMax(elem.sourceMultiplicity)]

\* Lines 170-178: self._aggregations after the Aggregation loop.
ParseAggregations(elems, aggregations) ==
    aggregations \o [i \in DOMAIN elems |-> AggData(elems[i])]

\* Lines 194-198 appending to the source class instead of the target.
LinkTargetSwapped(classes, agg) ==
    IF Has(classes, agg.source)
    THEN Put(classes, agg.source,
            [Get(classes, agg.source) EXCEPT
                !.parameters = Append(@, [name |-> agg.target, type |-> "class"])])
    ELSE classes

\* Lines 194-198: the target class gains a parameter naming the source.
LinkTarget(classes, agg) ==
    IF Has(classes, agg.target)
    THEN Put(classes, agg.target,
            [Get(classes, agg.target) EXCEPT
                !.parameters = Append(@, [name |-> agg.source, type |-> "class"])])
    ELSE classes

\* Lines 199-203: the source class takes the aggregation's min and max.
LinkSource(classes, agg) ==
    IF Has(classes, agg.source)
    THEN Put(classes, agg.source,
            [min |-> agg.min, max |-> agg.max] @@ Get(classes, agg.source))
    ELSE classes

\* _resolve_relationships: the loop over self._aggregations from index i on.
RECURSIVE _resolve_relationships(_, _, _)
_resolve_relationships(aggregations, i, classes) ==
    IF i > Len(aggregations) THEN classes
    ELSE _resolve_relationships(aggregations, i + 1,
            LinkSource(LinkTarget(classes, aggregations[i]), aggregations[i]))

\* parse(), lines 153-183: the new self._classes (whose values are returned)
\* and self._aggregations, from the document and the instance's fields.
parse(doc, classes, aggregations) ==
    LET aggs == ParseAggregations(doc.aggregations, aggregations)
    IN  [classes |-> _resolve_relationships(aggs, 1, ParseClasses(doc.classes, 1, classes)),
         aggregations |-> aggs]

(***************************************************************************)
(* xml_data.py: XMLBuilder                                                 *)
(***************************************************************************)

\* The depth of nested _build_component_obj calls at which the interpreter
\* raises RecursionError.
RecursionLimit == 4

\* Line 81: {item['class']: item for item in json_data}, from index i on.
RECURSIVE DictOf(_, _, _)
DictOf(items, i, d) ==
    IF i > Len(items) THEN d
    ELSE DictOf(items, i + 1, Put(d, items[i].class, items[i]))

\* _find_root returning the last root item instead of the first.
_find_root_last(d) ==
    IF \E i \in DOMAIN d : d[i].isRoot
    THEN <<d[CHOOSE i \in DOMAIN d :
                d[i].isRoot /\ \A j \in DOMAIN d : d[j].isRoot => j <= i]>>
    ELSE <<>>

\* _find_root, lines 101-103, from index i on: <<item>>, or <<>> for None.
RECURSIVE FindRootFrom(_, _)
FindRootFrom(d, i) ==
    IF i > Len(d) THEN <<>>
    ELSE IF d[i].isRoot THEN <<d[i]>>
    ELSE FindRootFrom(d, i + 1)

_find_root(d) == FindRootFrom(d, 1)

\* Line 121 dropping the type.
AttrComponentNoType(param) == XMLComposite(param.name, None)

\* Line 121: attr = XMLComposite(param['name'], param['type'])
AttrComponent(param) == XMLComposite(param.name, param.type)

\* Line 117 never following a class reference.
IsClassParamNever(param) == FALSE

\* Line 117: param['type'] == 'class'
IsClassParam(param) == param.type = "class"

Raised(error) == [ok |-> FALSE, error |-> error]
Returned(value) == [ok |-> TRUE, value |-> value]

\* _build_component_obj(class_name) called at nesting depth `depth`, and its
\* loop over the parameters from index i on with `comp` built so far. Either
\* returns the component or raises.
RECURSIVE _build_component_obj(_, _, _)
RECURSIVE BuildParams(_, _, _, _, _)
BuildParams(d, params, i, comp, depth) ==
    IF i > Len(params) THEN Returned(comp)
    ELSE IF IsClassParam(params[i])
    THEN LET child == _build_component_obj(d, params[i].name, depth + 1)
         IN  IF child.ok
             THEN BuildParams(d, params, i + 1, add(comp, child.value), depth)
             ELSE child
    ELSE BuildParams(d, params, i + 1, add(comp, AttrComponent(params[i])), depth)

_build_component_obj(d, class_name, depth) ==
    IF depth > RecursionLimit THEN Raised("RecursionError")
    ELSE IF ~Has(d, class_name) THEN Raised("KeyError")
    ELSE BuildParams(d, Get(d, class_name).parameters, 1,
                     XMLComposite(class_name, None), depth)

\* build(), lines 91-92.
build(d, r) ==
    IF r = <<>> THEN Raised("TypeError")
    ELSE LET root_component == _build_component_obj(d, r[1].class, 1)
         IN  IF root_component.ok
             THEN Returned(to_xml(root_component.value, 0))
             ELSE root_component

(***************************************************************************)
(* The documents explored                                                  *)
(***************************************************************************)

MaxAggregations == 2
MaxParses == 2
MaxNodes == 3
MaxIndent == 1

ClassNames == {"A", "B"}

\* The Attribute lists a Class element may hold: none, a typed attribute, one
\* beside an attribute with an empty type and one with no type at all, and
\* an attribute whose type is the marker 'class'.
AttributeLists ==
    {<<>>,
     <<[name |-> "speed", type |-> "int"]>>,
     <<[name |-> "speed", type |-> "int"], [name |-> "note", type |-> ""],
       [name |-> "tag", type |-> None]>>,
     <<[name |-> "B", type |-> "class"]>>}

\* A Class element: isRoot is "True" or missing.
ClassElements(name) ==
    [name : {name}, documentation : {None}, isRoot : {"True", None},
     attributes : AttributeLists]

\* The Class elements of a document: some of ClassNames, each declared once,
\* in any order.
ClassLists ==
    UNION {{cs \in [1..Cardinality(N) -> UNION {ClassElements(n) : n \in N}] :
                \A i, j \in DOMAIN cs : cs[i].name = cs[j].name => i = j} :
           N \in SUBSET ClassNames \ {{}}}

OneToMany == <<"1", ".", ".", "*">>

\* The sourceMultiplicity strings explored by SpecMultiplicity.
Multiplicities ==
    {OneToMany, <<"1">>, <<>>, <<"1", ".", ".", ".">>,
     <<"0", ".", ".", "1", ".", ".", "2">>}

Documents ==
    [classes : ClassLists,
     aggregations : SeqsUpTo([source : ClassNames, target : ClassNames,
                              sourceMultiplicity : {OneToMany}], MaxAggregations)]

PlainClass(name, isRoot) ==
    [name |-> name, documentation |-> None, isRoot |-> isRoot, attributes |-> <<>>]

MultiplicityDocuments ==
    [classes : {<<PlainClass("A", "true")>>,
                <<PlainClass("A", "true"), PlainClass("B", None)>>},
     aggregations : SeqsUpTo([source : ClassNames, target : {"A"},
                              sourceMultiplicity : Multiplicities], MaxAggregations)]

EmptyDocument == [classes |-> <<>>, aggregations |-> <<>>]

\* The tag names and attribute values of the XMLComposite objects explored.
TagNames == {"a", "b"}
AttributeValues == {None, "", "int"}

(***************************************************************************)
(* Operations                                                              *)
(***************************************************************************)

\* main.py line 9: json_data = parser.parse()
Parse ==
    /\ pc = "none"
    /\ Len(returned) < MaxParses
    /\ LET after == parse(document, _classes, _aggregations)
       IN  /\ _classes' = after.classes
           /\ _aggregations' = after.aggregations
           /\ returned' = Append(returned, after.classes)
    /\ UNCHANGED <<document, builder_vars, cfg_vars, tree_vars>>

\* main.py line 12: builder = XMLBuilder(json_data), on the list the last
\* parse() returned.
NewBuilder ==
    /\ pc = "none"
    /\ returned # <<>>
    /\ json_data' = returned[Len(returned)]
    /\ data' = DictOf(json_data', 1, <<>>)
    /\ root' = _find_root(data')
    /\ pc' = "ready"
    /\ UNCHANGED <<xml_structure, parser_vars, cfg_vars, tree_vars>>

\* main.py line 13: xml_structure = builder.build()
Build ==
    /\ pc = "ready"
    /\ LET result == build(data, root)
       IN  /\ pc' = IF result.ok THEN "built" ELSE result.error
           /\ xml_structure' = IF result.ok THEN result.value ELSE xml_structure
    /\ UNCHANGED <<json_data, data, root, parser_vars, cfg_vars, tree_vars>>

\* The places of the nodes of a tree: the child indices leading to each.
RECURSIVE Places(_)
Places(node) ==
    {<<>>} \cup UNION {{<<i>> \o p : p \in Places(node.children[i])} :
                          i \in DOMAIN node.children}

RECURSIVE NodeCount(_)
RECURSIVE NodeCountFrom(_, _)
NodeCountFrom(children, i) ==
    IF i > Len(children) THEN 0
    ELSE NodeCount(children[i]) + NodeCountFrom(children, i + 1)

NodeCount(node) == 1 + NodeCountFrom(node.children, 1)

\* The tree after node-at-place.add(child).
RECURSIVE AddAt(_, _, _)
AddAt(node, place, child) ==
    IF place = <<>> THEN add(node, child)
    ELSE [node EXCEPT !.children[place[1]] = AddAt(@, Tail(place), child)]

\* A caller creates an XMLComposite and adds it to a node of the tree.
Add ==
    /\ rendered = <<>>
    /\ NodeCount(component) < MaxNodes
    /\ \E place \in Places(component), name \in TagNames, value \in AttributeValues :
            component' = AddAt(component, place, XMLComposite(name, value))
    /\ UNCHANGED <<rendered, indent_arg, cfg_vars, parser_vars, builder_vars>>

\* A caller renders the tree: component.to_xml(indent).
ToXml ==
    /\ rendered = <<>>
    /\ \E indent \in 0..MaxIndent :
            /\ rendered' = to_xml(component, indent)
            /\ indent_arg' = indent
    /\ UNCHANGED <<component, cfg_vars, parser_vars, builder_vars>>

\* A fresh XMLParser (lines 140-142) and no XMLBuilder yet.
FreshParser ==
    /\ _classes = <<>> /\ _aggregations = <<>> /\ returned = <<>>
    /\ json_data = <<>> /\ data = <<>> /\ root = <<>> /\ xml_structure = <<>>
    /\ pc = "none"

IdleXml == document = EmptyDocument /\ FreshParser

IdleTree == component = XMLComposite("a", None) /\ rendered = <<>> /\ indent_arg = 0

IdleConfig ==
    /\ old_config = <<>> /\ new_config = <<>> /\ diff_config = EmptyDiff
    /\ new_json = <<>> /\ cfg_pc = "start"

InitConfig ==
    /\ old_config \in Docs
    /\ new_config \in Docs
    /\ diff_config = EmptyDiff
    /\ new_json = <<>>
    /\ cfg_pc = "start"
    /\ IdleXml /\ IdleTree

NextConfig == FindDifferences \/ DoConfigChanges

\* The diff/patch pipeline of main.py on every pair of documents.
SpecConfig == InitConfig /\ [][NextConfig]_vars

InitPatch ==
    /\ old_config \in PatchDocs
    /\ new_config = <<>>
    /\ diff_config = EmptyDiff
    /\ new_json = <<>>
    /\ cfg_pc = "start"
    /\ IdleXml /\ IdleTree

NextPatch == HandDiff \/ DoConfigChanges

\* do_config_changes on every base document and every diff document.
SpecPatch == InitPatch /\ [][NextPatch]_vars

Init == document \in Documents /\ FreshParser /\ IdleConfig /\ IdleTree

Next == Parse \/ NewBuilder \/ Build

\* The XML pipeline of main.py on every document: parse, construct, build.
Spec == Init /\ [][Next]_vars

InitMultiplicity ==
    document \in MultiplicityDocuments /\ FreshParser /\ IdleConfig /\ IdleTree

NextMultiplicity == Parse

\* parse() on documents whose aggregations carry every multiplicity.
SpecMultiplicity == InitMultiplicity /\ [][NextMultiplicity]_vars

InitTree ==
    /\ component \in {XMLComposite(n, v) : n \in TagNames, v \in AttributeValues}
    /\ rendered = <<>>
    /\ indent_arg = 0
    /\ IdleConfig /\ IdleXml

NextTree == Add \/ ToXml

\* Trees of XMLComposite objects put together with add() and rendered.
SpecTree == InitTree /\ [][NextTree]_vars

(***************************************************************************)
(* Claims about config_data.py                                             *)
(***************************************************************************)

AdditionKeys == {diff_config.additions[i].key : i \in DOMAIN diff_config.additions}
DeletionKeys == Range(diff_config.deletions)
UpdateKeys == {diff_config.updates[i].key : i \in DOMAIN diff_config.updates}
EqualSharedKeys ==
    {k \in DOMAIN old_config \cap DOMAIN new_config : old_config[k] = new_config[k]}

\* The values the diff names for key k: its additions' values, its updates' 'to'.
NamedValues(k) ==
    {diff_config.additions[i].value :
        i \in {j \in DOMAIN diff_config.additions : diff_config.additions[j].key = k}}
    \cup {diff_config.updates[i].to :
        i \in {j \in DOMAIN diff_config.updates : diff_config.updates[j].key = k}}

\* C1: when every key of old and new is non-empty, applying the diff of
\* (old, new) to old gives new: the same keys, the same value for each.
C1_RoundTrip ==
    (cfg_pc = "patched" /\ "" \notin DOMAIN old_config \cup DOMAIN new_config)
        => new_json = new_config

\* A round trip over non-empty keys whose diff adds, deletes and updates.
C1_Witness ==
    /\ cfg_pc = "patched"
    /\ "" \notin DOMAIN old_config \cup DOMAIN new_config
    /\ AdditionKeys # {} /\ DeletionKeys # {} /\ UpdateKeys # {}
    /\ new_json = new_config

\* C2: the key sets of additions, deletions and updates are pairwise
\* disjoint, none holds a shared key with equal values, and with those keys
\* they make up keys(old) \cup keys(new).
C2_DiffPartition ==
    cfg_pc # "start" =>
        /\ AdditionKeys \cap DeletionKeys = {}
        /\ AdditionKeys \cap UpdateKeys = {}
        /\ DeletionKeys \cap UpdateKeys = {}
        /\ EqualSharedKeys \cap (AdditionKeys \cup DeletionKeys \cup UpdateKeys) = {}
        /\ AdditionKeys \cup DeletionKeys \cup UpdateKeys \cup EqualSharedKeys
             = DOMAIN old_config \cup DOMAIN new_config

\* A diff with all three lists filled beside an unchanged shared key.
C2_Witness ==
    /\ cfg_pc = "diffed"
    /\ AdditionKeys # {} /\ DeletionKeys # {} /\ UpdateKeys # {}
    /\ EqualSharedKeys # {}

\* C3 as stated, for every diff in the diff shape: a deleted key is not copied
\* forward, a key named by an addition or update carries a value the diff
\* names for it, an untouched key keeps its old value.
C3_NetEffect_AsStated ==
    cfg_pc = "patched" =>
        /\ \A k \in DeletionKeys \ (AdditionKeys \cup UpdateKeys) :
                k \notin DOMAIN new_json
        /\ \A k \in AdditionKeys \cup UpdateKeys :
                k \in DOMAIN new_json /\ new_json[k] \in NamedValues(k)
        /\ \A k \in DOMAIN old_config \ (AdditionKeys \cup UpdateKeys \cup DeletionKeys) :
                k \in DOMAIN new_json /\ new_json[k] = old_config[k]

\* C3 amended: the same, where an addition or update counts only when its key
\* is non-empty; one with an empty key is skipped, so the empty key is deleted
\* or kept with its old value as if no addition or update named it.
C3_NetEffect ==
    LET named == {k \in AdditionKeys \cup UpdateKeys : k # ""}
    IN  cfg_pc = "patched" =>
            /\ \A k \in DeletionKeys \ named : k \notin DOMAIN new_json
            /\ \A k \in named :
                    k \in DOMAIN new_json /\ new_json[k] \in NamedValues(k)
            /\ \A k \in DOMAIN old_config \ (named \cup DeletionKeys) :
                    k \in DOMAIN new_json /\ new_json[k] = old_config[k]
            /\ DOMAIN new_json \subseteq DOMAIN old_config \cup named

\* A diff no find_differences call returns: one key added and deleted at once,
\* with a different old value, beside an untouched key.
C3_Witness ==
    /\ cfg_pc = "patched"
    /\ \E k \in AdditionKeys \cap DeletionKeys \cap DOMAIN old_config :
            k # "" /\ old_config[k] \notin NamedValues(k)
    /\ DOMAIN old_config \ (AdditionKeys \cup UpdateKeys \cup DeletionKeys) # {}

(***************************************************************************)
(* Claims about xml_data.py                                                *)
(***************************************************************************)

\* The lines of a rendered string: the pieces between its newlines.
RECURSIVE LinesOf(_)
LinesOf(str) ==
    IF \A i \in DOMAIN str : str[i] # "\n" THEN <<str>>
    ELSE LET n == CHOOSE i \in DOMAIN str :
                    str[i] = "\n" /\ \A j \in 1..(i - 1) : str[j] # "\n"
         IN  <<SubSeq(str, 1, n - 1)>> \o LinesOf(SubSeq(str, n + 1, Len(str)))

RECURSIVE Unindented(_)
Unindented(line) ==
    IF line # <<>> /\ line[1] = " " THEN Unindented(Tail(line)) ELSE line

LeafTag(name, type) == <<"<", name, ">", type, "</", name, ">">>

\* How many lines of the string build() returned are the leaf tag
\* <name>type</name>, at any indent.
LeafCount(name, type) ==
    LET lines == LinesOf(xml_structure)
    IN  Cardinality({i \in DOMAIN lines : Unindented(lines[i]) = LeafTag(name, type)})

RECURSIVE SumOver(_, _)
SumOver(f, S) ==
    IF S = {} THEN 0
    ELSE LET x == CHOOSE y \in S : TRUE IN f[x] + SumOver(f, S \ {x})

RecordOf(class) == data[CHOOSE i \in DOMAIN data : data[i].class = class]
ClassesOfData == {data[i].class : i \in DOMAIN data}

\* The positions of the class-typed parameters of a class of data.
ClassRefs(class) ==
    {i \in DOMAIN RecordOf(class).parameters : RecordOf(class).parameters[i].type = "class"}

\* The number of chains of class-typed parameters from class `from` to class
\* `to` of at most `fuel` links (a parameter listed twice makes two chains).
RECURSIVE Chains(_, _, _)
Chains(from, to, fuel) ==
    (IF from = to THEN 1 ELSE 0)
    + (IF fuel = 0 \/ from \notin ClassesOfData THEN 0
       ELSE SumOver([i \in ClassRefs(from) |->
                        Chains(RecordOf(from).parameters[i].name, to, fuel - 1)],
                    ClassRefs(from)))

\* How many parameters of the class are the attribute name : type.
Declares(class, name, type) ==
    Cardinality({i \in DOMAIN RecordOf(class).parameters :
                    RecordOf(class).parameters[i] = [name |-> name, type |-> type]})

\* The attributes of the records the builder was given.
AttributesOfData ==
    {p \in UNION {{RecordOf(c).parameters[i] : i \in DOMAIN RecordOf(c).parameters} :
                      c \in ClassesOfData} : p.type # "class"}

\* The classes a class of the document refers to: the sources of the
\* aggregations that target it.
PartsOf(class) ==
    {document.aggregations[i].source :
        i \in {j \in DOMAIN document.aggregations : document.aggregations[j].target = class}}

DeclaredClasses == {document.classes[i].name : i \in DOMAIN document.classes}

RECURSIVE PartsWithin(_, _)
PartsWithin(class, steps) ==
    IF steps = 0 THEN {}
    ELSE PartsOf(class) \cup UNION {PartsWithin(c, steps - 1) : c \in PartsOf(class)}

\* No class of the document is, through aggregations, a part of itself.
AcyclicDocument ==
    \A c \in DeclaredClasses : c \notin PartsWithin(c, Cardinality(DeclaredClasses))

UniqueRootDocument ==
    Cardinality({i \in DOMAIN document.classes :
                    Lower(GetAttr(document.classes[i].isRoot, "false")) = "true"}) = 1

\* How many attributes name : type the Class elements of the document declare.
DeclaredCount(name, type) ==
    SumOver([i \in DOMAIN document.classes |->
                Cardinality({j \in DOMAIN document.classes[i].attributes :
                    document.classes[i].attributes[j] = [name |-> name, type |-> type]})],
            DOMAIN document.classes)

\* C4 as stated, read in its favour: for a document with a unique root class
\* and acyclic class references, parsed once by a fresh parser, every
\* declared attribute with a non-empty type other than 'class' is exactly one
\* leaf tag <name>type</name> of the string build() returns (so there are as
\* many such leaf tags as attributes with that name and type).
C4_EveryAttributeOnce_AsStated ==
    (pc = "built" /\ json_data = returned[1] /\ UniqueRootDocument /\ AcyclicDocument) =>
        \A i \in DOMAIN document.classes :
            \A j \in DOMAIN document.classes[i].attributes :
                LET a == document.classes[i].attributes[j]
                IN  (Truthy(a.type) /\ a.type # "class") =>
                        LeafCount(a.name, a.type) = DeclaredCount(a.name, a.type)

\* C4 amended: in the string build() returns, the leaf tag <name>type</name>
\* of an attribute with a non-empty type other than 'class' occurs once for
\* every chain of class references from the root to a class whose record
\* holds that attribute (not at all for a class the root does not reach, n
\* times for a class it reaches by n chains), and an attribute whose type is
\* empty or missing is no leaf tag.
C4_EveryAttributePerChain ==
    pc = "built" =>
        \A a \in AttributesOfData :
            LeafCount(a.name, a.type) =
                IF Truthy(a.type)
                THEN SumOver([c \in ClassesOfData |->
                                Chains(root[1].class, c, RecursionLimit)
                                    * Declares(c, a.name, a.type)],
                             ClassesOfData)
                ELSE 0

\* A built tree whose root class holds the attribute speed : int and a part:
\* the leaf tag <speed>int</speed> occurs once.
C4_Witness ==
    /\ pc = "built"
    /\ Len(data) = 2
    /\ ClassRefs(root[1].class) # {}
    /\ Declares(root[1].class, "speed", "int") = 1
    /\ LeafCount("speed", "int") = 1

\* The Aggregation elements whose target is the class, in document order.
AggregationsInto(class) ==
    SelectSeq(document.aggregations, LAMBDA agg : agg.target = class)

\* C5: after one parse() on a fresh parser there is one record per Class
\* element, in document order, and its parameters are the element's
\* attributes in document order followed by one {name: source, type: 'class'}
\* per Aggregation element that targets the class, in document order (so an
\* aggregation with an undeclared target adds nothing anywhere).
C5_ParameterSequence ==
    returned # <<>> =>
        /\ Len(returned[1]) = Len(document.classes)
        /\ \A i \in DOMAIN returned[1] :
            /\ returned[1][i].class = document.classes[i].name
            /\ returned[1][i].parameters =
                    [j \in DOMAIN document.classes[i].attributes |->
                        [name |-> document.classes[i].attributes[j].name,
                         type |-> document.classes[i].attributes[j].type]]
                    \o [j \in DOMAIN AggregationsInto(document.classes[i].name) |->
                        [name |-> AggregationsInto(document.classes[i].name)[j].source,
                         type |-> "class"]]

\* A parsed class with attributes and an aggregation into it, beside an
\* aggregation whose target is not declared.
C5_Witness ==
    /\ Len(returned) = 1
    /\ \E i \in DOMAIN document.classes :
            /\ document.classes[i].attributes # <<>>
            /\ AggregationsInto(document.classes[i].name) # <<>>
    /\ \E j \in DOMAIN document.aggregations :
            document.aggregations[j].target \notin DeclaredClasses

\* The index of the first '..' of a string that holds one.
FirstDots(str) ==
    CHOOSE i \in 1..(Len(str) - 1) :
        /\ str[i] = "." /\ str[i + 1] = "."
        /\ \A j \in 1..(i - 1) : ~(str[j] = "." /\ str[j + 1] = ".")

HasDots(str) == \E i \in 1..(Len(str) - 1) : str[i] = "." /\ str[i + 1] = "."

BeforeDots(str) == SubSeq(str, 1, FirstDots(str) - 1)
AfterDots(str) == SubSeq(str, FirstDots(str) + 2, Len(str))

\* The sourceMultiplicity of the last Aggregation element whose source is the
\* class.
LastMultiplicityOf(class) ==
    LET from == SelectSeq(document.aggregations, LAMBDA agg : agg.source = class)
    IN  from[Len(from)].sourceMultiplicity

IsSource(class) ==
    \E i \in DOMAIN document.aggregations : document.aggregations[i].source = class

\* C6 as stated: a record has min and max exactly when its class is the
\* source of an aggregation; they come from the last such aggregation: with
\* '..' in the multiplicity, min is the part before the separator and max the
\* part after it, without it both are the whole string.
C6_MinMax_AsStated ==
    \A n \in DOMAIN returned : \A i \in DOMAIN returned[n] :
        LET record == returned[n][i]
            m == LastMultiplicityOf(record.class)
        IN  /\ ("min" \in DOMAIN record) = IsSource(record.class)
            /\ ("max" \in DOMAIN record) = IsSource(record.class)
            /\ IsSource(record.class) =>
                /\ record.min = IF HasDots(m) THEN BeforeDots(m) ELSE m
                /\ record.max = IF HasDots(m) THEN AfterDots(m) ELSE m

\* C6 amended: the same, where max is the part after the first separator up
\* to the next separator, if there is one.
C6_MinMax ==
    \A n \in DOMAIN returned : \A i \in DOMAIN returned[n] :
        LET record == returned[n][i]
            m == LastMultiplicityOf(record.class)
        IN  /\ ("min" \in DOMAIN record) = IsSource(record.class)
            /\ ("max" \in DOMAIN record) = IsSource(record.class)
            /\ IsSource(record.class) =>
                /\ record.min = IF HasDots(m) THEN BeforeDots(m) ELSE m
                /\ record.max = IF ~HasDots(m) THEN m
                                ELSE IF HasDots(AfterDots(m)) THEN BeforeDots(AfterDots(m))
                                ELSE AfterDots(m)

\* Two aggregations from B, a bare "1" and then "1..*": B's record carries
\* the last one's min "1" and max "*", A's record has neither field.
C6_Witness ==
    /\ Len(returned) = 1
    /\ Len(returned[1]) = 2
    /\ Len(document.aggregations) = 2
    /\ document.aggregations[1] =
            [source |-> "B", target |-> "A", sourceMultiplicity |-> <<"1">>]
    /\ document.aggregations[2] =
            [source |-> "B", target |-> "A", sourceMultiplicity |-> OneToMany]
    /\ "min" \notin DOMAIN returned[1][1]
    /\ returned[1][2].min = <<"1">>
    /\ returned[1][2].max = <<"*">>

\* C7 as stated: every parse() on one XMLParser, the document unchanged,
\* returns a list equal to the one its first call returned.
C7_ParseRepeats ==
    \A n \in DOMAIN returned : returned[n] = returned[1]

\* The first item of the list whose isRoot is true: <<item>>, <<>> if none.
FirstRootOf(items) ==
    IF \E i \in DOMAIN items : items[i].isRoot
    THEN <<items[CHOOSE i \in DOMAIN items :
                    items[i].isRoot /\ \A j \in 1..(i - 1) : ~items[j].isRoot]>>
    ELSE <<>>

\* The classes a chain of at least one and at most `steps` class-typed
\* parameters leads to from the class.
RECURSIVE ReachedFrom(_, _)
ReachedFrom(class, steps) ==
    IF steps = 0 \/ class \notin ClassesOfData THEN {}
    ELSE LET next == {RecordOf(class).parameters[i].name : i \in ClassRefs(class)}
         IN  next \cup UNION {ReachedFrom(c, steps - 1) : c \in next}

\* A cycle of class-typed parameters can be reached from the root class.
CycleReachable ==
    \E c \in {root[1].class} \cup ReachedFrom(root[1].class, Len(data)) :
        c \in ReachedFrom(c, Len(data))

\* Every class-typed parameter names a class of data.
ReferencesResolve ==
    \A c \in ClassesOfData :
        \A i \in ClassRefs(c) : RecordOf(c).parameters[i].name \in ClassesOfData

\* C8: with a root class and every class-typed parameter naming a class,
\* build() returns exactly when no cycle of class-typed parameters can be
\* reached from the root; with such a cycle the recursion goes on until the
\* interpreter's stack is exhausted and nothing is returned.
C8_BuildReturnsIffAcyclic ==
    (pc \notin {"none", "ready"} /\ root # <<>> /\ ReferencesResolve) =>
        /\ (pc = "built") = ~CycleReachable
        /\ CycleReachable => (pc = "RecursionError" /\ xml_structure = <<>>)

\* A root class that is not on a cycle itself and reaches one: build() ended
\* in RecursionError.
C8_Witness ==
    /\ pc = "RecursionError"
    /\ ReferencesResolve
    /\ root[1].class \notin ReachedFrom(root[1].class, Len(data))

\* C9: the builder's root is the first record of the list, in list order,
\* whose isRoot is true; with no such record the constructor succeeds with a
\* null root, and build() then ends in an error and returns no string.
C9_RootSelection ==
    /\ pc # "none" => root = FirstRootOf(json_data)
    /\ (pc = "ready" /\ root = <<>>) => \A i \in DOMAIN json_data : ~json_data[i].isRoot
    /\ (pc \notin {"none", "ready"} /\ root = <<>>) =>
            (pc = "TypeError" /\ xml_structure = <<>>)
    /\ pc = "TypeError" => root = <<>>

\* Two records with isRoot true: the tree was built from the first.
C9_Witness ==
    /\ pc = "built"
    /\ Len(json_data) = 2
    /\ json_data[1].isRoot /\ json_data[2].isRoot
    /\ root = <<json_data[1]>>
    /\ xml_structure[2] = json_data[1].class

(***************************************************************************)
(* Claims about XMLComposite.to_xml                                        *)
(***************************************************************************)

RECURSIVE Flatten(_)
Flatten(seqs) == IF seqs = <<>> THEN <<>> ELSE Head(seqs) \o Flatten(Tail(seqs))

IndentedLine(depth, text) == [i \in 1..(4 * depth) |-> " "] \o text

\* The lines the three shapes give for a node at nesting depth `depth`.
RECURSIVE ShapeLines(_, _)
ShapeLines(node, depth) ==
    IF Len(node.children) >= 1
    THEN <<IndentedLine(depth, <<"<", node.name, ">">>)>>
         \o Flatten([i \in DOMAIN node.children |->
                        ShapeLines(node.children[i], depth + 1)])
         \o <<IndentedLine(depth, <<"</", node.name, ">">>)>>
    ELSE IF node.attribute_value # None /\ node.attribute_value # ""
    THEN <<IndentedLine(depth,
            <<"<", node.name, ">", node.attribute_value, "</", node.name, ">">>)>>
    ELSE <<IndentedLine(depth, <<"<", node.name, ">">>),
           IndentedLine(depth, <<"</", node.name, ">">>)>>

\* C10: to_xml(indent) renders a node with children as an opening line, the
\* children at indent + 1 in order and a closing line; otherwise a node with
\* a non-empty attribute value as the one line <name>value</name>; otherwise
\* as an empty tag pair on two lines; the lines are joined by newlines and
\* each line of a node at depth d starts with exactly 4 * d spaces.
C10_ThreeShapes ==
    rendered # <<>> => LinesOf(rendered) = ShapeLines(component, indent_arg)

\* A rendered tree, called with indent 1, whose root has a non-empty
\* attribute value and children, one of which has a child of its own.
C10_Witness ==
    /\ rendered # <<>>
    /\ indent_arg = 1
    /\ component.attribute_value = "int"
    /\ \E i \in DOMAIN component.children : component.children[i].children # <<>>

====
